---- MODULE Spec2Model ----
(***************************************************************************)
(* Model of the accident-tracker client screens.                           *)
(*                                                                         *)
(*   AccidentRecords (src/app/accidentRecords.js): a live subscription to  *)
(*   the accidentReports collection whose callback normalises every        *)
(*   record's timestamp, sorts newest-first and publishes the list; and    *)
(*   handleRespond, which opens a maps link, sets status "Help on way" and *)
(*   adds a notification for the reporting user.                           *)
(*                                                                         *)
(*   MainScreen (src/app/main.js): a live subscription to the unread       *)
(*   notifications of one user, alerting every change of type "added".     *)
(*                                                                         *)
(* The document store, the link opener and React's mount/unmount are the   *)
(* environment: their actions are the ones the client code relies on.      *)
(***************************************************************************)
EXTENDS Integers, Sequences, FiniteSets, TLC

\* ------------------------------------------------------------- bounds
MaxReports == 2        \* report documents ever created in the store
MaxPending == 2        \* snapshots queued for one listener, not yet delivered
MaxCalls == 2          \* handleRespond invocations
MaxTicks == 1          \* clock advances
MaxMainEffects == 2    \* runs of MainScreen's notification effect

VARIABLES
    now,              \* the device clock, in ms (new Date())
    ticks,            \* how often the clock has advanced
    store,            \* accidentReports collection: id -> document data
    nextReportId,     \* ids are assigned by the store, never reused
    notifications,    \* all notification documents, with their user (path)
    recMounted,       \* AccidentRecords is mounted
    recSubs,          \* the live onSnapshot listeners on accidentReports: [pending]
    accidentReports,  \* useState: the list published to the view
    lastSnap,         \* history: the snapshot the last callback was given
    lastNow,          \* history: the clock when the last callback ran
    shown,            \* history: the ids earlier callbacks of this mount published
    calls,            \* handleRespond invocations, in order of invocation
    mainMounted,      \* MainScreen is mounted
    mainUserId,       \* params.userId of MainScreen
    mainSubs,         \* the live listeners on notifications: [userId, prev, pending]
    mainEffects,      \* how often the notification effect has run
    alerted           \* Alert.alert('Update Received', ..) count per notification id

vars == <<now, ticks, store, nextReportId, notifications, recMounted, recSubs,
          accidentReports, lastSnap, lastNow, shown, calls, mainMounted, mainUserId,
          mainSubs, mainEffects, alerted>>

clockVars == <<now, ticks>>
storeVars == <<store, nextReportId>>
recVars == <<recMounted, recSubs, accidentReports, lastSnap, lastNow, shown>>
mainVars == <<mainMounted, mainUserId, mainSubs, mainEffects, alerted>>

\* ------------------------------------------------------------- values

\* userId of a report or of the screen parameters: absent, empty or a user.
NoUser == "<absent>"
Users == {"u1", "u2"}
UserIds == {NoUser, ""} \cup Users

\* JS truthiness of a userId: undefined and "" are falsy.
TruthyUser(u) == u \notin {NoUser, ""}

\* A stored timestamp field.  kind says which representation:
\*   "native"    Firestore Timestamp, a = seconds, b = nanoseconds
\*   "epoch"     number, a = milliseconds since the epoch
\*   "iso"       string "1970-01-01T00:00:<a>.<b>Z", a = seconds, b = milliseconds
\*   "empty"     the empty string
\*   "missing"   undefined / null
\*   "malformed" a string that is no date, or an object without toDate
Ts(kind, a, b) == [kind |-> kind, a |-> a, b |-> b]

\* A JS Date: a time value in ms, or Invalid Date (time value NaN).
Date(ms) == [valid |-> TRUE, ms |-> ms]
InvalidDate == [valid |-> FALSE, ms |-> 0]

\* data.timestamp is truthy: objects and non-empty strings are, 0 and "" are not.
TruthyTs(ts) ==
    CASE ts.kind = "native" -> TRUE
      [] ts.kind = "epoch" -> ts.a # 0
      [] ts.kind = "iso" -> TRUE
      [] ts.kind = "malformed" -> TRUE
      [] OTHER -> FALSE

\* typeof data.timestamp.toDate === 'function'
HasToDate(ts) == ts.kind = "native"

\* Timestamp.toDate(): seconds * 1000 + nanoseconds / 1e6.
ToDate(ts) == Date(ts.a * 1000 + (ts.b \div 1000000))

\* new Date(value): a number is the time value, a string is parsed, anything
\* that is neither a date string nor a number gives Invalid Date.
NewDate(ts) ==
    CASE ts.kind = "epoch" -> Date(ts.a)
      [] ts.kind = "iso" -> Date(ts.a * 1000 + ts.b)
      [] OTHER -> InvalidDate

\* The timestamp normalisation of the snapshot callback.
NormalizeTimestamp(ts, clock) ==
    IF TruthyTs(ts) /\ HasToDate(ts) THEN ToDate(ts)
    ELSE IF TruthyTs(ts) THEN NewDate(ts)
    ELSE Date(clock)

\* item.location && typeof latitude === 'number' && typeof longitude === 'number'
Loc(present, latNum, lngNum) == [present |-> present, latNum |-> latNum, lngNum |-> lngNum]
LocationOk(loc) == loc.present /\ loc.latNum /\ loc.lngNum

\* A stored report document.
Doc(ts, uid, loc, sev) ==
    [timestamp |-> ts, status |-> "Pending", userId |-> uid, location |-> loc,
     severity |-> sev]

\* ------------------------------------------------------------- ReportStream

\* The documents of a query snapshot, in the store's order (by id).
RECURSIVE SnapshotFrom(_, _, _)
SnapshotFrom(st, i, last) ==
    IF i > last THEN <<>>
    ELSE IF i \in DOMAIN st
         THEN <<[id |-> i, data |-> st[i]]>> \o SnapshotFrom(st, i + 1, last)
         ELSE SnapshotFrom(st, i + 1, last)

Snapshot(st) == SnapshotFrom(st, 1, nextReportId)

\* reports.push({ id: docSnap.id, ...data, timestamp: timestamp })
Entry(d, clock) ==
    [id |-> d.id,
     timestamp |-> NormalizeTimestamp(d.data.timestamp, clock),
     status |-> d.data.status,
     userId |-> d.data.userId,
     location |-> d.data.location,
     severity |-> d.data.severity]

\* A faulty Reports: the loop starts at the second document.
ReportsSkippingFirst(snap, clock) ==
    [i \in 1..(Len(snap) - 1) |-> Entry(snap[i + 1], clock)]

\* querySnapshot.forEach(...): one entry per document, in snapshot order.
Reports(snap, clock) == [i \in 1..Len(snap) |-> Entry(snap[i], clock)]

\* (a, b) => b.timestamp - a.timestamp, as Array.prototype.sort reads it:
\* a NaN result counts as +0.
CompareFn(a, b) ==
    IF ~a.timestamp.valid \/ ~b.timestamp.valid THEN 0
    ELSE b.timestamp.ms - a.timestamp.ms

\* Insert e into the sorted sequence s after every element it does not precede.
RECURSIVE Insert(_, _)
Insert(s, e) ==
    IF s = <<>> THEN <<e>>
    ELSE IF CompareFn(s[Len(s)], e) <= 0 THEN Append(s, e)
    ELSE Append(Insert(SubSeq(s, 1, Len(s) - 1), e), s[Len(s)])

\* The stable sort of a sequence under CompareFn.
RECURSIVE StableSort(_)
StableSort(s) ==
    IF s = <<>> THEN <<>>
    ELSE Insert(StableSort(SubSeq(s, 1, Len(s) - 1)), s[Len(s)])

\* CompareFn is a consistent comparator on s: with an Invalid Date comparing
\* equal to everything, two different valid times break transitivity.
ConsistentComparator(s) ==
    \/ \A i \in 1..Len(s) : s[i].timestamp.valid
    \/ Cardinality({s[i].timestamp.ms : i \in {j \in 1..Len(s) : s[j].timestamp.valid}}) <= 1

Orderings(s) ==
    {[i \in 1..Len(s) |-> s[p[i]]] :
        p \in {q \in [1..Len(s) -> 1..Len(s)] : \A i, j \in 1..Len(s) : q[i] = q[j] => i = j}}

\* reports.sort(compareFn): the stable sort when the comparator is consistent,
\* otherwise the order is implementation-defined.
SortOutcomes(s) ==
    IF ConsistentComparator(s) THEN {StableSort(s)} ELSE Orderings(s)

\* What the store queues for the listeners after a change: the new state of
\* the query, for every listener not yet unsubscribed.
Notify(subs, snap) == {[l EXCEPT !.pending = Append(@, snap)] : l \in subs}

\* Every listener's queue can take one more snapshot.
HasRoom(subs) == \A l \in subs : Len(l.pending) < MaxPending

NoSnap == [seen |-> FALSE, docs |-> <<>>]

\* const unsubscribe = onSnapshot(q, callback): the listener is registered and
\* the store queues the initial snapshot for it.
SubscribeReports(subs) == subs \cup {[pending |-> <<Snapshot(store)>>]}

\* A faulty Unsubscribe: the cleanup leaves the listener registered.
UnsubscribeLeaking(subs) == subs

\* return () => unsubscribe(): the effect's listener is removed, and with it
\* whatever was queued for it.
Unsubscribe(subs) == {}

\* AccidentRecords mounts: useState([]) and the effect runs.
MountRecords ==
    /\ ~recMounted
    /\ recMounted' = TRUE
    /\ accidentReports' = <<>>
    /\ recSubs' = SubscribeReports(recSubs)
    /\ lastSnap' = NoSnap
    /\ shown' = {}
    /\ UNCHANGED <<clockVars, storeVars, notifications, lastNow, calls, mainVars>>

\* AccidentRecords unmounts: the effect's cleanup runs, the state is dropped.
UnmountRecords ==
    /\ recMounted
    /\ recMounted' = FALSE
    /\ recSubs' = Unsubscribe(recSubs)
    /\ accidentReports' = <<>>
    /\ lastSnap' = NoSnap
    /\ shown' = {}
    /\ UNCHANGED <<clockVars, storeVars, notifications, lastNow, calls, mainVars>>

Ids(list) == {list[i].id : i \in 1..Len(list)}

\* The onSnapshot callback: normalise, sort, setAccidentReports(reports).
DeliverReports ==
    \E l \in recSubs :
        /\ l.pending # <<>>
        /\ LET snap == Head(l.pending) IN
            /\ \E sorted \in SortOutcomes(Reports(snap, now)) : accidentReports' = sorted
            /\ lastSnap' = [seen |-> TRUE, docs |-> snap]
        /\ lastNow' = now
        /\ shown' = shown \cup Ids(accidentReports)
        /\ recSubs' = (recSubs \ {l}) \cup {[l EXCEPT !.pending = Tail(@)]}
        /\ UNCHANGED <<clockVars, storeVars, notifications, recMounted, calls, mainVars>>

\* ------------------------------------------------------------- ResponseAction

HelpOnWay == "Help on way"
\* The message, after its leading emoji.
ResponseMessage == "Help is on the way! A driver has responded to your accident report."
ResponseType == "accident_response"

\* A faulty NewCall: handleRespond returns after the location alert.
NewCallStoppingOnLocationError(item) ==
    [item |-> [id |-> item.id, userId |-> item.userId, location |-> item.location,
               status |-> item.status],
     pc |-> IF LocationOk(item.location) THEN "awaitUpdate" ELSE "done",
     link |-> IF LocationOk(item.location) THEN "pending" ELSE "none",
     locAlert |-> ~LocationOk(item.location),
     linkAlert |-> FALSE,
     update |-> IF LocationOk(item.location) THEN "pending" ELSE "none",
     add |-> "none",
     errAlerts |-> 0]

\* handleRespond(item) up to its first await: the location check, the link
\* request or the location alert, and the updateDoc request.
NewCall(item) ==
    [item |-> [id |-> item.id, userId |-> item.userId, location |-> item.location,
               status |-> item.status],
     pc |-> "awaitUpdate",
     link |-> IF LocationOk(item.location) THEN "pending" ELSE "none",
     locAlert |-> ~LocationOk(item.location),
     linkAlert |-> FALSE,
     update |-> "pending",
     add |-> "none",
     errAlerts |-> 0]

\* onPress={() => handleRespond(item)} on a row of the rendered list.
Respond(i) ==
    /\ recMounted
    /\ i \in 1..Len(accidentReports)
    /\ Len(calls) < MaxCalls
    /\ calls' = Append(calls, NewCall(accidentReports[i]))
    /\ UNCHANGED <<clockVars, storeVars, notifications, recVars, mainVars>>

\* Linking.openURL(url) resolves: the link is open.
LinkOpened(c) ==
    /\ c \in 1..Len(calls)
    /\ calls[c].link = "pending"
    /\ calls' = [calls EXCEPT ![c].link = "opened"]
    /\ UNCHANGED <<clockVars, storeVars, notifications, recVars, mainVars>>

\* Linking.openURL(url) rejects: .catch alerts 'Failed to open Google Maps'.
LinkFailed(c) ==
    /\ c \in 1..Len(calls)
    /\ calls[c].link = "pending"
    /\ calls' = [calls EXCEPT ![c].link = "failed", ![c].linkAlert = TRUE]
    /\ UNCHANGED <<clockVars, storeVars, notifications, recVars, mainVars>>

\* A faulty UpdateDoc: the write flips the status.
UpdateDocToggling(st, id) ==
    [st EXCEPT ![id].status = IF @ = HelpOnWay THEN "Pending" ELSE HelpOnWay]

\* A faulty UpdateDoc: the write replaces the document (setDoc without merge).
UpdateDocReplacing(st, id) ==
    [st EXCEPT ![id] = [timestamp |-> Ts("missing", 0, 0), status |-> HelpOnWay,
                        userId |-> NoUser, location |-> Loc(FALSE, FALSE, FALSE),
                        severity |-> ""]]

\* updateDoc(reportRef, { status: 'Help on way' }) on the stored documents.
UpdateDoc(st, id) == [st EXCEPT ![id].status = HelpOnWay]

\* A faulty AfterUpdate: addDoc is called whatever item.userId is.
AfterUpdateAlwaysNotifying(call) ==
    [call EXCEPT !.update = "ok", !.pc = "awaitAdd", !.add = "pending"]

\* The continuation after await updateDoc: if (item.userId) addDoc(...).
AfterUpdate(call) ==
    IF TruthyUser(call.item.userId)
    THEN [call EXCEPT !.update = "ok", !.pc = "awaitAdd", !.add = "pending"]
    ELSE [call EXCEPT !.update = "ok", !.pc = "done"]

\* A faulty Catch: a failed addDoc is only logged.
CatchSilentOnAdd(call, step) ==
    IF step = "update"
    THEN [call EXCEPT !.update = "failed", !.pc = "done", !.errAlerts = @ + 1]
    ELSE [call EXCEPT !.add = "failed", !.pc = "done"]

\* catch (error): console.error and Alert.alert('Update Error', ...).
Catch(call, step) ==
    IF step = "update"
    THEN [call EXCEPT !.update = "failed", !.pc = "done", !.errAlerts = @ + 1]
    ELSE [call EXCEPT !.add = "failed", !.pc = "done", !.errAlerts = @ + 1]

\* await updateDoc resolves: the document exists and the write is applied.
UpdateSucceeds(c) ==
    /\ c \in 1..Len(calls)
    /\ calls[c].pc = "awaitUpdate"
    /\ calls[c].item.id \in DOMAIN store
    /\ store' = UpdateDoc(store, calls[c].item.id)
    /\ IF store' # store
       THEN HasRoom(recSubs) /\ recSubs' = Notify(recSubs, Snapshot(store'))
       ELSE recSubs' = recSubs
    /\ calls' = [calls EXCEPT ![c] = AfterUpdate(@)]
    /\ UNCHANGED <<clockVars, nextReportId, notifications, recMounted, accidentReports,
                   lastSnap, lastNow, shown, mainVars>>

\* await updateDoc rejects: no such document, no permission or no connection.
UpdateFails(c) ==
    /\ c \in 1..Len(calls)
    /\ calls[c].pc = "awaitUpdate"
    /\ calls' = [calls EXCEPT ![c] = Catch(@, "update")]
    /\ UNCHANGED <<clockVars, storeVars, notifications, recVars, mainVars>>

\* The unread notifications of a user: query(notificationsRef, where('read', '==', false)).
Unread(notifs, uid) == {n.id : n \in {m \in notifs : m.user = uid /\ ~m.read}}

\* The document addDoc creates under users/{userId}/notifications; its timestamp
\* is kept as the clock value that toISOString() writes out.
NewNotification(id, uid, clock) ==
    [id |-> id, user |-> uid, message |-> ResponseMessage, timestamp |-> clock,
     read |-> FALSE, type |-> ResponseType]

\* What the store queues for MainScreen's listeners after a change of the
\* notifications: the new result of each listener's query, where it changed.
NotifyMain(subs, notifs) ==
    {IF Unread(notifs, l.userId) # Unread(notifications, l.userId)
     THEN [l EXCEPT !.pending = Append(@, Unread(notifs, l.userId))]
     ELSE l : l \in subs}

\* await addDoc resolves: the notification document is created.
AddSucceeds(c) ==
    /\ c \in 1..Len(calls)
    /\ calls[c].pc = "awaitAdd"
    /\ HasRoom(mainSubs)
    /\ notifications' = notifications \cup
           {NewNotification(Cardinality(notifications) + 1, calls[c].item.userId, now)}
    /\ mainSubs' = NotifyMain(mainSubs, notifications')
    /\ calls' = [calls EXCEPT ![c].add = "ok", ![c].pc = "done"]
    /\ UNCHANGED <<clockVars, storeVars, recVars, mainMounted, mainUserId, mainEffects,
                   alerted>>

\* await addDoc rejects.
AddFails(c) ==
    /\ c \in 1..Len(calls)
    /\ calls[c].pc = "awaitAdd"
    /\ calls' = [calls EXCEPT ![c] = Catch(@, "add")]
    /\ UNCHANGED <<clockVars, storeVars, notifications, recVars, mainVars>>

\* ------------------------------------------------------------- NotificationWatcher

\* The notification effect: if (!userId) return; otherwise onSnapshot(q, callback),
\* and the store queues the initial snapshot of the user's unread notifications.
SubscribeNotifications(subs, uid) ==
    IF ~TruthyUser(uid) THEN subs
    ELSE subs \cup {[userId |-> uid, prev |-> {}, pending |-> <<Unread(notifications, uid)>>]}

\* The effect's cleanup, return () => unsubscribe(): its listener is removed.
UnsubscribeNotifications(subs) == {}

\* MainScreen mounts with params.userId = uid.
MountMain(uid) ==
    /\ ~mainMounted
    /\ mainEffects < MaxMainEffects
    /\ mainMounted' = TRUE
    /\ mainUserId' = uid
    /\ mainSubs' = SubscribeNotifications(mainSubs, uid)
    /\ mainEffects' = mainEffects + 1
    /\ UNCHANGED <<clockVars, storeVars, notifications, recVars, calls, alerted>>

\* MainScreen unmounts: the cleanup runs.
UnmountMain ==
    /\ mainMounted
    /\ mainMounted' = FALSE
    /\ mainSubs' = UnsubscribeNotifications(mainSubs)
    /\ UNCHANGED <<clockVars, storeVars, notifications, recVars, calls, mainUserId,
                   mainEffects, alerted>>

\* params.userId changes while mounted: [userId] reruns the effect, cleanup first.
ChangeUserId(uid) ==
    /\ mainMounted
    /\ uid # mainUserId
    /\ mainEffects < MaxMainEffects
    /\ mainUserId' = uid
    /\ mainSubs' = SubscribeNotifications(UnsubscribeNotifications(mainSubs), uid)
    /\ mainEffects' = mainEffects + 1
    /\ UNCHANGED <<clockVars, storeVars, notifications, recVars, calls, mainMounted, alerted>>

\* snapshot.docChanges() of type 'added': in this snapshot, not in the previous one.
Added(prev, snap) == snap \ prev

\* The onSnapshot callback: Alert.alert('Update Received', message) per added change.
DeliverNotifications ==
    \E l \in mainSubs :
        /\ l.pending # <<>>
        /\ LET snap == Head(l.pending) IN
            /\ alerted' = [n \in DOMAIN alerted |->
                              IF n \in Added(l.prev, snap) THEN alerted[n] + 1
                              ELSE alerted[n]]
            /\ mainSubs' = (mainSubs \ {l}) \cup
                              {[l EXCEPT !.prev = snap, !.pending = Tail(@)]}
        /\ UNCHANGED <<clockVars, storeVars, notifications, recVars, calls, mainMounted,
                       mainUserId, mainEffects>>

\* ------------------------------------------------------------- environment

\* The reporting flow creates a report; the store assigns the next id.
CreateReport(doc) ==
    /\ nextReportId <= MaxReports
    /\ HasRoom(recSubs)
    /\ store' = (nextReportId :> doc) @@ store
    /\ nextReportId' = nextReportId + 1
    /\ recSubs' = Notify(recSubs, Snapshot(store'))
    /\ UNCHANGED <<clockVars, notifications, recMounted, accidentReports, lastSnap,
                   lastNow, shown, calls, mainVars>>

\* A report is deleted outside these screens.
DeleteReport(id) ==
    /\ id \in DOMAIN store
    /\ HasRoom(recSubs)
    /\ store' = [j \in DOMAIN store \ {id} |-> store[j]]
    /\ recSubs' = Notify(recSubs, Snapshot(store'))
    /\ UNCHANGED <<clockVars, nextReportId, notifications, recMounted, accidentReports,
                   lastSnap, lastNow, shown, calls, mainVars>>

\* Time passes.
Tick ==
    /\ ticks < MaxTicks
    /\ ticks' = ticks + 1
    /\ now' = now + 500
    /\ UNCHANGED <<storeVars, notifications, recVars, calls, mainVars>>

\* The timestamps reports are created with: 1500 ms as a store timestamp, 1000 ms
\* and 0 ms as numbers, 1500 ms and 2000 ms as ISO strings, none, and no date at all.
TimestampInputs ==
    {Ts("native", 1, 500000000), Ts("epoch", 1000, 0), Ts("epoch", 0, 0),
     Ts("iso", 1, 500), Ts("iso", 2, 0), Ts("missing", 0, 0), Ts("malformed", 0, 0)}

\* Reports as the reporting flow leaves them: with and without a user, with
\* coordinates, without a location, and with a longitude that is no number.
Submitted == Doc(Ts("iso", 2, 0), "u1", Loc(TRUE, TRUE, TRUE), "high")
Anonymous == Doc(Ts("epoch", 1000, 0), NoUser, Loc(FALSE, FALSE, FALSE), "low")
EmptyUser == Doc(Ts("native", 1, 500000000), "", Loc(TRUE, TRUE, FALSE), "low")
Unlocated == Doc(Ts("iso", 2, 0), "u1", Loc(FALSE, FALSE, FALSE), "high")

RespondStores ==
    {<<Submitted, Anonymous>>, <<EmptyUser, Unlocated>>, <<Unlocated, Submitted>>,
     <<Anonymous, EmptyUser>>}

\* The state when the app starts, over a store that holds the reports st.
InitWith(st) ==
    /\ now = 3000
    /\ ticks = 0
    /\ store = st
    /\ nextReportId = Len(st) + 1
    /\ notifications = {}
    /\ recMounted = FALSE
    /\ recSubs = {}
    /\ accidentReports = <<>>
    /\ lastSnap = NoSnap
    /\ lastNow = 3000
    /\ shown = {}
    /\ calls = <<>>
    /\ mainMounted = FALSE
    /\ mainUserId = NoUser
    /\ mainSubs = {}
    /\ mainEffects = 0
    /\ alerted = [n \in 1..MaxCalls |-> 0]

\* ReportStream over a changing collection.
InitStream == InitWith(<<>>)

NextStream ==
    \/ MountRecords
    \/ UnmountRecords
    \/ DeliverReports
    \/ \E ts \in TimestampInputs : CreateReport(Doc(ts, NoUser, Loc(TRUE, TRUE, TRUE), "high"))
    \/ \E id \in 1..MaxReports : DeleteReport(id)
    \/ Tick

SpecStream == InitStream /\ [][NextStream]_vars

\* ResponseAction on the rows of the published list.
InitRespond == \E st \in RespondStores : InitWith(st)

NextRespond ==
    \/ MountRecords
    \/ UnmountRecords
    \/ DeliverReports
    \/ \E i \in 1..2 : Respond(i)
    \/ \E c \in 1..MaxCalls : LinkOpened(c)
    \/ \E c \in 1..MaxCalls : LinkFailed(c)
    \/ \E c \in 1..MaxCalls : UpdateSucceeds(c)
    \/ \E c \in 1..MaxCalls : UpdateFails(c)
    \/ \E c \in 1..MaxCalls : AddSucceeds(c)
    \/ \E c \in 1..MaxCalls : AddFails(c)
    \/ \E id \in 1..2 : DeleteReport(id)

SpecRespond == InitRespond /\ [][NextRespond]_vars

\* Both screens and their subscriptions, notifications coming from responses.
InitWatch == InitWith(<<Unlocated>>)

NextWatch ==
    \/ MountRecords
    \/ UnmountRecords
    \/ DeliverReports
    \/ Respond(1)
    \/ \E c \in 1..MaxCalls : UpdateSucceeds(c)
    \/ \E c \in 1..MaxCalls : UpdateFails(c)
    \/ \E c \in 1..MaxCalls : AddSucceeds(c)
    \/ \E c \in 1..MaxCalls : AddFails(c)
    \/ \E uid \in UserIds : MountMain(uid)
    \/ UnmountMain
    \/ \E uid \in UserIds : ChangeUserId(uid)
    \/ DeliverNotifications

SpecWatch == InitWatch /\ [][NextWatch]_vars

\* Every action of both screens and of their environment.
Init == InitWith(<<>>)

Next ==
    \/ NextStream
    \/ NextRespond
    \/ NextWatch
    \/ \E uid \in UserIds, loc \in {Loc(TRUE, TRUE, TRUE), Loc(FALSE, FALSE, FALSE)} :
          CreateReport(Doc(Ts("iso", 2, 0), uid, loc, "high"))

Spec == Init /\ [][Next]_vars

\* ------------------------------------------------------------- properties

\* a >= b on two Dates: false when either is Invalid Date.
Geq(a, b) == a.valid /\ b.valid /\ a.ms >= b.ms

\* The document of id in a snapshot.
DocOf(snap, id) == snap[CHOOSE i \in 1..Len(snap) : snap[i].id = id]

Malformed(ts) == ts.kind = "malformed"

\* C1: after every snapshot callback the published list is ordered newest-first,
\* each entry's normalised timestamp >= that of the next entry, whatever the
\* timestamps of the snapshot's records are.
C1_NewestFirst ==
    lastSnap.seen =>
        \A i \in 1..(Len(accidentReports) - 1) :
            Geq(accidentReports[i].timestamp, accidentReports[i + 1].timestamp)

\* C2: a record whose timestamp is present but malformed is published with the
\* current time as its timestamp, every other record of the snapshot with its
\* own normalised timestamp, and the whole batch is published.
C2_MalformedFallsBackToNow ==
    lastSnap.seen =>
        /\ Ids(accidentReports) = Ids(lastSnap.docs)
        /\ \A i \in 1..Len(accidentReports) :
              LET ts == DocOf(lastSnap.docs, accidentReports[i].id).data.timestamp IN
              accidentReports[i].timestamp =
                  IF Malformed(ts) THEN Date(lastNow) ELSE NormalizeTimestamp(ts, lastNow)

\* C10: after each snapshot callback the published list holds exactly one entry
\* per record of that snapshot and nothing of an earlier list; before the first
\* callback of a mount it is empty.
C10_PublishedIsSnapshot ==
    /\ Len(accidentReports) = Len(lastSnap.docs)
    /\ Ids(accidentReports) = Ids(lastSnap.docs)
    /\ Cardinality(Ids(accidentReports)) = Len(accidentReports)

\* C10's case: a record published earlier in this mount is gone from the
\* latest snapshot, and from the list, which still shows another record.
C10_Witness ==
    /\ lastSnap.seen
    /\ accidentReports # <<>>
    /\ shown \ Ids(accidentReports) # {}
    /\ C10_PublishedIsSnapshot

StoredStatusIs(id, status) == id \in DOMAIN store => store[id].status = status

\* C3: for a report with a non-empty userId, after every invocation whose writes
\* succeeded the stored status is "Help on way", and each user's notifications
\* are exactly one per such invocation, each unread and of type accident_response.
C3_RespondRepeats ==
    /\ \A c \in 1..Len(calls) :
          TruthyUser(calls[c].item.userId) /\ calls[c].update = "ok"
              => StoredStatusIs(calls[c].item.id, HelpOnWay)
    /\ \A u \in Users :
          Cardinality({n \in notifications : n.user = u}) =
          Cardinality({c \in 1..Len(calls) : calls[c].item.userId = u /\ calls[c].add = "ok"})
    /\ \A n \in notifications : ~n.read /\ n.type = ResponseType

\* C3's case: two completed invocations on the same report of user u1.
C3_Witness ==
    /\ Len(calls) = 2
    /\ calls[1].item.id = calls[2].item.id
    /\ calls[1].item.userId = "u1"
    /\ calls[1].add = "ok" /\ calls[2].add = "ok"
    /\ Cardinality({n \in notifications : n.user = "u1"}) = 2
    /\ calls[1].item.id \in DOMAIN store
    /\ store[calls[1].item.id].status = HelpOnWay

\* C4: an invocation on a report without userId, or with an empty one, creates
\* no notification whether its status update succeeds or fails, and alerts an
\* update error only when the update failed.
C4_NoUserNoNotification ==
    /\ \A c \in 1..Len(calls) :
          ~TruthyUser(calls[c].item.userId) =>
              /\ calls[c].add = "none"
              /\ calls[c].errAlerts = IF calls[c].update = "failed" THEN 1 ELSE 0
    /\ \A n \in notifications : TruthyUser(n.user)
    /\ Cardinality(notifications) =
          Cardinality({c \in 1..Len(calls) :
                          TruthyUser(calls[c].item.userId) /\ calls[c].add = "ok"})

\* C4's case: one invocation on a report without userId whose update failed
\* and one on a report with an empty userId whose update succeeded.
C4_Witness ==
    /\ Len(calls) = 2
    /\ \E c \in 1..2 : calls[c].item.userId = NoUser /\ calls[c].update = "failed"
    /\ \E c \in 1..2 : /\ calls[c].item.userId = "" /\ calls[c].update = "ok"
                        /\ calls[c].pc = "done"
    /\ notifications = {}

\* C5: every invocation attempts the status write whatever the geo-link step
\* did: without two numeric coordinates a location error is alerted and no link
\* is requested, a failed link is alerted, and the status is still set.
C5_WritesDespiteLink ==
    \A c \in 1..Len(calls) :
        /\ calls[c].update # "none"
        /\ calls[c].locAlert = ~LocationOk(calls[c].item.location)
        /\ ~LocationOk(calls[c].item.location) => calls[c].link = "none"
        /\ LocationOk(calls[c].item.location) => calls[c].link # "none"
        /\ calls[c].linkAlert = (calls[c].link = "failed")
        /\ calls[c].update = "ok" => StoredStatusIs(calls[c].item.id, HelpOnWay)

\* C5's case: one invocation without a usable location and one whose link
\* failed to open, both with the status written.
C5_Witness ==
    /\ Len(calls) = 2
    /\ \E c \in 1..2 : /\ calls[c].locAlert /\ calls[c].update = "ok"
                        /\ calls[c].item.id \in DOMAIN store
                        /\ store[calls[c].item.id].status = HelpOnWay
    /\ \E c \in 1..2 : /\ calls[c].link = "failed" /\ calls[c].update = "ok"
                        /\ calls[c].item.id \in DOMAIN store
                        /\ store[calls[c].item.id].status = HelpOnWay

\* C6: the notification create is issued only after the status update
\* succeeded; a failed update creates no notification; a failed create leaves
\* the status written; and each failing invocation alerts exactly one update
\* error, every other none.
C6_OneFailureBoundary ==
    \A c \in 1..Len(calls) :
        /\ calls[c].add # "none" => calls[c].update = "ok"
        /\ calls[c].update = "failed" => calls[c].add = "none"
        /\ calls[c].add = "failed" => StoredStatusIs(calls[c].item.id, HelpOnWay)
        /\ calls[c].errAlerts =
              IF calls[c].update = "failed" \/ calls[c].add = "failed" THEN 1 ELSE 0
        /\ (calls[c].update = "failed" \/ calls[c].add = "failed") => calls[c].pc = "done"

\* C6's case: one invocation whose update failed, one whose create failed
\* after its update was applied.
C6_Witness ==
    /\ Len(calls) = 2
    /\ \E c \in 1..2 : calls[c].update = "failed" /\ calls[c].errAlerts = 1
    /\ \E c \in 1..2 : /\ calls[c].add = "failed" /\ calls[c].errAlerts = 1
                        /\ calls[c].item.id \in DOMAIN store
                        /\ store[calls[c].item.id].status = HelpOnWay
    /\ notifications = {}

\* The fields of a report document other than status.
Rest(d) == [timestamp |-> d.timestamp, userId |-> d.userId, location |-> d.location,
            severity |-> d.severity]

\* C9: the status write of handleRespond changes the status field of its target
\* and nothing else: no other field of that report, no other report.
C9_StatusOnly ==
    [][\A c \in 1..Len(calls) :
          calls[c].update = "pending" /\ calls'[c].update = "ok" =>
              /\ DOMAIN store' = DOMAIN store
              /\ \A id \in DOMAIN store :
                    /\ Rest(store'[id]) = Rest(store[id])
                    /\ id # calls[c].item.id => store'[id] = store[id]]_vars

\* C9's case: two updates applied from copies that both show "Pending", so one
\* of them was stale when written, beside a report that is still pending.
C9_Witness ==
    /\ Len(calls) = 2
    /\ calls[1].item.id = calls[2].item.id
    /\ calls[1].item.status = "Pending" /\ calls[2].item.status = "Pending"
    /\ calls[1].update = "ok" /\ calls[2].update = "ok"
    /\ \E id \in DOMAIN store : id # calls[1].item.id /\ store[id].status = "Pending"

\* C7: no notification is alerted more than once, over any sequence of
\* snapshots and across re-subscriptions.
C7_AlertedOnce == \A n \in DOMAIN alerted : alerted[n] <= 1

\* C8: each screen has at most one live subscription while mounted and none
\* once unmounted, and while a screen is unmounted nothing is published to its
\* list and no notification alert is raised.
C8_ScopedSubscriptions ==
    /\ [](/\ Cardinality(recSubs) <= 1
          /\ Cardinality(mainSubs) <= 1
          /\ ~recMounted => recSubs = {}
          /\ ~mainMounted => mainSubs = {}
          /\ recMounted => Cardinality(recSubs) = 1)
    /\ [][/\ (~recMounted /\ ~recMounted') => accidentReports' = accidentReports
          /\ (~mainMounted /\ ~mainMounted') => alerted' = alerted]_vars

\* C8's case: both screens are unmounted after being mounted, with a status
\* change and an unread notification of the watched user that no callback saw.
C8_Witness ==
    /\ ~recMounted /\ ~mainMounted
    /\ mainEffects > 0
    /\ recSubs = {} /\ mainSubs = {}
    /\ accidentReports = <<>>
    /\ \E id \in DOMAIN store : store[id].status = HelpOnWay
    /\ \E n \in notifications : n.user = mainUserId /\ alerted[n.id] = 0

====
